---- MODULE Spec2Model ----
(***************************************************************************)
(* Model of the Futaba 8-MD-06INK VFD driver (src/ftb-8-md.c).             *)
(*                                                                         *)
(* Every driver function is an operator that takes the bus log of the      *)
(* calling device, the arguments and the outcome `r` of the one transport  *)
(* call it can make, and yields the return value and the new bus log.      *)
(* The two functions that make several external calls (device_register,    *)
(* clear_display) are split into one action per external call.             *)
(***************************************************************************)
EXTENDS Integers, Sequences, FiniteSets

(* ---------------------------------------------------------------- bounds *)

\* digit and char_index arguments range DigitSpan below 0 and above 7
DigitSpan == 2
\* longest text handed to show_string (9 is one more than the display width)
MaxTextLen == 9

(* ------------------------------------------------------ program constants *)

FTB8MD_NUM_DIGITS == 8
FTB8MD_MAX_DIMMING == 240

CMD_PREFIX_DCRAM == 1
CMD_PREFIX_CGRAM == 2
CMD_PREFIX_ADRAM == 3

CMD_DIGIT_SET == 224
CMD_DIMMING == 228
CMD_DISPLAY_ON == 232
CMD_DISPLAY_OFF == 234
CMD_MODE_NORMAL == 236
CMD_MODE_STANDBY == 237

\* vTaskDelay(pdMS_TO_TICKS(10))
ResetDelayMs == 10
\* sizeof(DisplayCommand)
CmdSize == 9
\* number of pattern bytes of a glyph
GridLen == 5

ESP_OK == "ESP_OK"
ESP_ERR_INVALID_ARG == "ESP_ERR_INVALID_ARG"
ESP_FAIL == "ESP_FAIL"
ESP_ERR_TIMEOUT == "ESP_ERR_TIMEOUT"

\* results the collaborators (spi_device_transmit, spi_bus_add_device,
\* gpio_config) can report
TransportErrors == {ESP_FAIL, ESP_ERR_TIMEOUT}
TransportResults == {ESP_OK} \cup TransportErrors

(* ------------------------------------------------------------ input sets *)

\* the two devices (chip-select lines); device d owns handle value d
Devices == {1, 2}
NULL == 0

\* a pointer argument: either NULL or the bytes it points at
NULLPTR == [null |-> TRUE, bytes |-> << >>]
Ptr(b) == [null |-> FALSE, bytes |-> b]

DigitArgs == (0 - DigitSpan) .. (FTB8MD_NUM_DIGITS - 1 + DigitSpan)
Uint8 == 0 .. 255
\* 'H' and a byte above 0x7F
TextBytes == {72, 200}
HELLO == <<72, 69, 76, 76, 79>>
\* one-character buffers { c, '\0' } with c a glyph code 0..7; c = 0 is the
\* terminator itself
GlyphCodes == 0 .. 7
Texts == UNION {[1 .. n -> TextBytes] : n \in 0 .. MaxTextLen}
         \cup {HELLO} \cup {<<c>> : c \in GlyphCodes}
\* glyph columns: empty, all seven rows, all eight bits, bit 7 alone
GridBytes == {0, 127, 255, 128}
Grids == [1 .. GridLen -> GridBytes]
\* reset_pin: not connected, or a GPIO number
ResetPins == {-1, 0, 4}

(* ------------------------------------------- DisplayCommand (the union) *)

\* DisplayCommand cmd = {0};
ZeroCmd == [k \in 1 .. CmdSize |-> 0]

\* cmd.ctrl.prefix = v;  (uint8_t, byte 1)
SetCtrlPrefix(raw, v) == [raw EXCEPT ![1] = v % 256]
\* cmd.ctrl.arg = v;  (uint8_t, byte 2)
SetCtrlArg(raw, v) == [raw EXCEPT ![2] = v % 256]

\* byte1.prefix : 3 -- bits 7-5 of byte 1 (dcram_write, cgram_write,
\* adram_write.byte1.reserved)
SetPrefix3(raw, p) == [raw EXCEPT ![1] = (raw[1] % 32) + (p % 8) * 32]
\* byte1.digit : 5 -- bits 4-0 of byte 1 (dcram_write, adram_write)
SetDigit5(raw, d) == [raw EXCEPT ![1] = (raw[1] \div 32) * 32 + (d % 32)]
\* cgram_write.byte1.addr : 3 -- bits 2-0 of byte 1
SetAddr3(raw, a) == [raw EXCEPT ![1] = (raw[1] \div 8) * 8 + (a % 8)]
\* adram_write.byte2.pin : 4 -- bits 3-0 of byte 2
SetPin4(raw, p) == [raw EXCEPT ![2] = (raw[2] \div 16) * 16 + (p % 16)]
\* dcram_write.chr[i] = v  (i from 0; chr starts at byte 2)
SetChr(raw, i, v) == [raw EXCEPT ![i + 2] = v % 256]

(* -------------------------------------------------------------- bus log *)

\* one external call made by the driver, as the collaborators see it
Event(type, data, r) == [type |-> type, data |-> data, ret |-> r]
Tx(data, r) == Event("tx", data, r)

Result(r, log) == [ret |-> r, log |-> log]

\* variant: a failed transmission is sent a second time
ftb8md_send_command_Retry(log, handle, raw, len, r) ==
    IF handle = NULL \/ len = 0
    THEN Result(ESP_ERR_INVALID_ARG, log)
    ELSE IF r = ESP_OK
    THEN Result(r, Append(log, Tx(SubSeq(raw, 1, len), r)))
    ELSE Result(r, Append(Append(log, Tx(SubSeq(raw, 1, len), r)),
                          Tx(SubSeq(raw, 1, len), r)))
\* variant: the whole command buffer is sent, whatever len says
ftb8md_send_command_WholeBuffer(log, handle, raw, len, r) ==
    IF handle = NULL \/ len = 0
    THEN Result(ESP_ERR_INVALID_ARG, log)
    ELSE Result(r, Append(log, Tx(SubSeq(raw, 1, CmdSize), r)))
\* ftb8md_send_command: the caller always passes cmd.raw of a local
\* DisplayCommand, so cmd is never NULL
ftb8md_send_command(log, handle, raw, len, r) ==
    IF handle = NULL \/ len = 0
    THEN Result(ESP_ERR_INVALID_ARG, log)
    ELSE Result(r, Append(log, Tx(SubSeq(raw, 1, len), r)))

(* ------------------------------------------------- single-packet calls *)

\* variant: the upper bound of the range test is off by one
DigitOutOfRange_OffByOne(digit) == digit < 0 \/ digit > FTB8MD_NUM_DIGITS
\* digit < 0 || digit >= FTB8MD_NUM_DIGITS
DigitOutOfRange(digit) == digit < 0 \/ digit >= FTB8MD_NUM_DIGITS
\* variant: the upper bound of the range test is off by one
CharIndexOutOfRange_OffByOne(char_index) == char_index < 0 \/ char_index > 8
\* char_index < 0 || char_index > 7
CharIndexOutOfRange(char_index) == char_index < 0 \/ char_index > 7

\* variant: the room left on the display is counted one short
CharsToWrite_OneShort(digit, str_len) ==
    LET max_chars == FTB8MD_NUM_DIGITS - digit - 1
    IN  IF str_len < max_chars THEN str_len ELSE max_chars
\* chars_to_write = (str_len < max_chars) ? str_len : max_chars
CharsToWrite(digit, str_len) ==
    LET max_chars == FTB8MD_NUM_DIGITS - digit
    IN  IF str_len < max_chars THEN str_len ELSE max_chars

\* strlen(str): the bytes before the first 0; the buffer `bytes` is followed
\* by a terminating 0
RECURSIVE StrLenFrom(_, _)
StrLenFrom(bytes, k) ==
    IF k > Len(bytes) \/ bytes[k] = 0 THEN k - 1 ELSE StrLenFrom(bytes, k + 1)
StrLen(bytes) == StrLenFrom(bytes, 1)

\* (uint8_t)str[i]
CharToByte(c) == c % 256

\* the copy loop of show_string: chr[i] = (uint8_t)str[i] for i < n
RECURSIVE CopyChars(_, _, _)
CopyChars(raw, bytes, n) ==
    IF n = 0 THEN raw
    ELSE SetChr(CopyChars(raw, bytes, n - 1), n - 1, CharToByte(bytes[n]))

ftb8md_show_string(log, handle, digit, str, r) ==
    IF handle = NULL \/ str.null THEN Result(ESP_ERR_INVALID_ARG, log)
    ELSE IF DigitOutOfRange(digit) THEN Result(ESP_ERR_INVALID_ARG, log)
    ELSE LET n == CharsToWrite(digit, StrLen(str.bytes))
             cmd == CopyChars(SetDigit5(SetPrefix3(ZeroCmd, CMD_PREFIX_DCRAM),
                                        digit), str.bytes, n)
         IN  ftb8md_send_command(log, handle, cmd, 1 + n, r)

\* variant: the level is passed on unclamped
ClampDimming_None(level) == level
\* level > FTB8MD_MAX_DIMMING ? FTB8MD_MAX_DIMMING : level
ClampDimming(level) ==
    IF level > FTB8MD_MAX_DIMMING THEN FTB8MD_MAX_DIMMING ELSE level

ftb8md_set_dimming(log, handle, level, r) ==
    IF handle = NULL THEN Result(ESP_ERR_INVALID_ARG, log)
    ELSE LET cmd == SetCtrlArg(SetCtrlPrefix(ZeroCmd, CMD_DIMMING),
                               ClampDimming(level))
         IN  ftb8md_send_command(log, handle, cmd, 2, r)

\* variant: the two opcodes are swapped
StandbyOpcode_Swapped(standby) ==
    IF standby THEN CMD_MODE_NORMAL ELSE CMD_MODE_STANDBY
\* standby ? CMD_MODE_STANDBY : CMD_MODE_NORMAL
StandbyOpcode(standby) == IF standby THEN CMD_MODE_STANDBY ELSE CMD_MODE_NORMAL

ftb8md_enter_standby(log, handle, standby, r) ==
    IF handle = NULL THEN Result(ESP_ERR_INVALID_ARG, log)
    ELSE LET cmd == SetCtrlPrefix(ZeroCmd, StandbyOpcode(standby))
         IN  ftb8md_send_command(log, handle, cmd, 2, r)

\* on ? CMD_DISPLAY_ON : CMD_DISPLAY_OFF
PowerOpcode(on) == IF on THEN CMD_DISPLAY_ON ELSE CMD_DISPLAY_OFF

ftb8md_set_display_power(log, handle, on, r) ==
    IF handle = NULL THEN Result(ESP_ERR_INVALID_ARG, log)
    ELSE LET cmd == SetCtrlPrefix(ZeroCmd, PowerOpcode(on))
         IN  ftb8md_send_command(log, handle, cmd, 2, r)

\* variant: the dot is put on pin E3 instead of E0
DotPin_E3(dot_on) == IF dot_on THEN 8 ELSE 0
\* dot_on ? 0x01 : 0x00
DotPin(dot_on) == IF dot_on THEN 1 ELSE 0

ftb8md_set_dot(log, handle, digit, dot_on, r) ==
    IF handle = NULL THEN Result(ESP_ERR_INVALID_ARG, log)
    ELSE IF DigitOutOfRange(digit) THEN Result(ESP_ERR_INVALID_ARG, log)
    ELSE LET cmd == SetPin4(SetDigit5(SetPrefix3(ZeroCmd, CMD_PREFIX_ADRAM),
                                      digit), DotPin(dot_on))
         IN  ftb8md_send_command(log, handle, cmd, 2, r)

ftb8md_set_segment(log, handle, digit, segments, r) ==
    IF handle = NULL THEN Result(ESP_ERR_INVALID_ARG, log)
    ELSE IF DigitOutOfRange(digit) THEN Result(ESP_ERR_INVALID_ARG, log)
    ELSE LET cmd == SetChr(SetDigit5(SetPrefix3(ZeroCmd, CMD_PREFIX_DCRAM),
                                     digit), 0, segments)
         IN  ftb8md_send_command(log, handle, cmd, 2, r)

\* variant: the copy keeps only the seven row bits of each column
RECURSIVE CopyGrid_SevenBits(_, _, _)
CopyGrid_SevenBits(raw, bytes, n) ==
    IF n = 0 THEN raw
    ELSE [CopyGrid_SevenBits(raw, bytes, n - 1) EXCEPT ![n + 1] = bytes[n] % 128]
\* memcpy(cmd.cgram_write.data, grid_data, 5): data starts at byte 2
RECURSIVE CopyGrid(_, _, _)
CopyGrid(raw, bytes, n) ==
    IF n = 0 THEN raw
    ELSE [CopyGrid(raw, bytes, n - 1) EXCEPT ![n + 1] = bytes[n]]

ftb8md_write_custom_char(log, handle, char_index, grid_data, r) ==
    IF handle = NULL \/ grid_data.null THEN Result(ESP_ERR_INVALID_ARG, log)
    ELSE IF CharIndexOutOfRange(char_index)
    THEN Result(ESP_ERR_INVALID_ARG, log)
    ELSE LET cmd == CopyGrid(SetAddr3(SetPrefix3(ZeroCmd, CMD_PREFIX_CGRAM),
                                      char_index), grid_data.bytes, GridLen)
         IN  ftb8md_send_command(log, handle, cmd, 1 + GridLen, r)

\* variant: the glyph is addressed with the CGRAM write prefix
ftb8md_set_addressed_char_Cgram(log, handle, digit, char_index, r) ==
    IF handle = NULL THEN Result(ESP_ERR_INVALID_ARG, log)
    ELSE IF DigitOutOfRange(digit) THEN Result(ESP_ERR_INVALID_ARG, log)
    ELSE IF CharIndexOutOfRange(char_index)
    THEN Result(ESP_ERR_INVALID_ARG, log)
    ELSE LET cmd == SetChr(SetDigit5(SetPrefix3(ZeroCmd, CMD_PREFIX_CGRAM),
                                     digit), 0, char_index)
         IN  ftb8md_send_command(log, handle, cmd, 2, r)

ftb8md_set_addressed_char(log, handle, digit, char_index, r) ==
    IF handle = NULL THEN Result(ESP_ERR_INVALID_ARG, log)
    ELSE IF DigitOutOfRange(digit) THEN Result(ESP_ERR_INVALID_ARG, log)
    ELSE IF CharIndexOutOfRange(char_index)
    THEN Result(ESP_ERR_INVALID_ARG, log)
    ELSE LET cmd == SetChr(SetDigit5(SetPrefix3(ZeroCmd, CMD_PREFIX_DCRAM),
                                     digit), 0, char_index)
         IN  ftb8md_send_command(log, handle, cmd, 2, r)

(* ---------------------------------------------------------------- state *)

VARIABLES
    pc,       \* per device: where its caller's thread stands
    hnd,      \* per device: the handle the last device_register returned
    call,     \* per device: the driver call in progress or last finished
    bus,      \* per device: the external calls made by that call, in order
    ret,      \* per device: the esp_err_t the last finished call returned
    cmd,      \* per device: device_register's local DisplayCommand
    lhandle,  \* per device: device_register's local handle
    idx       \* per device: clear_display's loop variable i

vars == <<pc, hnd, call, bus, ret, cmd, lhandle, idx>>

NoCall == [op |-> "none", handle |-> NULL, digit |-> 0, str |-> NULLPTR,
           level |-> 0, flag |-> FALSE, char_index |-> 0,
           grid |-> NULLPTR, reset_pin |-> -1]

Init ==
    /\ pc = [d \in Devices |-> "idle"]
    /\ hnd = [d \in Devices |-> NULL]
    /\ call = [d \in Devices |-> NoCall]
    /\ bus = [d \in Devices |-> << >>]
    /\ ret = [d \in Devices |-> "none"]
    /\ cmd = [d \in Devices |-> ZeroCmd]
    /\ lhandle = [d \in Devices |-> NULL]
    /\ idx = [d \in Devices |-> 0]

\* handles a caller of device d can pass: none, or the one register gave it
HandleArgs(d) == {NULL, hnd[d]}

\* the caller has taken the result of a finished call and is about to make
\* its next one; the driver keeps nothing of the finished call
CallerContinues(d) ==
    /\ pc[d] = "done"
    /\ pc' = [pc EXCEPT ![d] = "idle"]
    /\ call' = [call EXCEPT ![d] = NoCall]
    /\ bus' = [bus EXCEPT ![d] = << >>]
    /\ ret' = [ret EXCEPT ![d] = "none"]
    /\ UNCHANGED <<hnd, cmd, lhandle, idx>>

\* a call that returns within the step that starts it (the caller is idle)
Returns(d, c, res) ==
    /\ call' = [call EXCEPT ![d] = c]
    /\ bus' = [bus EXCEPT ![d] = res.log]
    /\ ret' = [ret EXCEPT ![d] = res.ret]
    /\ pc' = [pc EXCEPT ![d] = "done"]
    /\ UNCHANGED <<hnd, cmd, lhandle, idx>>

ShowString(d) ==
    /\ pc[d] = "idle"
    /\ \E handle \in HandleArgs(d), digit \in DigitArgs,
          str \in {NULLPTR} \cup {Ptr(s) : s \in Texts}, r \in TransportResults :
        Returns(d, [NoCall EXCEPT !.op = "show_string", !.handle = handle,
                                  !.digit = digit, !.str = str],
                ftb8md_show_string(<< >>, handle, digit, str, r))

SetDimming(d) ==
    /\ pc[d] = "idle"
    /\ \E handle \in HandleArgs(d), level \in Uint8, r \in TransportResults :
        Returns(d, [NoCall EXCEPT !.op = "set_dimming", !.handle = handle,
                                  !.level = level],
                ftb8md_set_dimming(<< >>, handle, level, r))

EnterStandby(d) ==
    /\ pc[d] = "idle"
    /\ \E handle \in HandleArgs(d), standby \in BOOLEAN, r \in TransportResults :
        Returns(d, [NoCall EXCEPT !.op = "enter_standby", !.handle = handle,
                                  !.flag = standby],
                ftb8md_enter_standby(<< >>, handle, standby, r))

SetDisplayPower(d) ==
    /\ pc[d] = "idle"
    /\ \E handle \in HandleArgs(d), on \in BOOLEAN, r \in TransportResults :
        Returns(d, [NoCall EXCEPT !.op = "set_display_power",
                                  !.handle = handle, !.flag = on],
                ftb8md_set_display_power(<< >>, handle, on, r))

SetDot(d) ==
    /\ pc[d] = "idle"
    /\ \E handle \in HandleArgs(d), digit \in DigitArgs, dot_on \in BOOLEAN,
          r \in TransportResults :
        Returns(d, [NoCall EXCEPT !.op = "set_dot", !.handle = handle,
                                  !.digit = digit, !.flag = dot_on],
                ftb8md_set_dot(<< >>, handle, digit, dot_on, r))

SetSegment(d) ==
    /\ pc[d] = "idle"
    /\ \E handle \in HandleArgs(d), digit \in DigitArgs, segments \in Uint8,
          r \in TransportResults :
        Returns(d, [NoCall EXCEPT !.op = "set_segment", !.handle = handle,
                                  !.digit = digit, !.level = segments],
                ftb8md_set_segment(<< >>, handle, digit, segments, r))

WriteCustomChar(d) ==
    /\ pc[d] = "idle"
    /\ \E handle \in HandleArgs(d), char_index \in DigitArgs,
          grid \in {NULLPTR} \cup {Ptr(g) : g \in Grids}, r \in TransportResults :
        Returns(d, [NoCall EXCEPT !.op = "write_custom_char",
                                  !.handle = handle,
                                  !.char_index = char_index, !.grid = grid],
                ftb8md_write_custom_char(<< >>, handle, char_index, grid, r))

SetAddressedChar(d) ==
    /\ pc[d] = "idle"
    /\ \E handle \in HandleArgs(d), digit \in DigitArgs,
          char_index \in DigitArgs, r \in TransportResults :
        Returns(d, [NoCall EXCEPT !.op = "set_addressed_char",
                                  !.handle = handle, !.digit = digit,
                                  !.char_index = char_index],
                ftb8md_set_addressed_char(<< >>, handle, digit, char_index, r))

(* -------------------------------------------------------- clear_display *)

\* memset(cmd.dcram_write.chr, 0x20, n)
RECURSIVE FillSpaces(_, _)
FillSpaces(raw, n) ==
    IF n = 0 THEN raw ELSE SetChr(FillSpaces(raw, n - 1), n - 1, 32)

\* the text-clear packet and its length
ClearTextCmd ==
    FillSpaces(SetDigit5(SetPrefix3(ZeroCmd, CMD_PREFIX_DCRAM), 0),
               FTB8MD_NUM_DIGITS)
ClearTextLen == 1 + FTB8MD_NUM_DIGITS

\* variant: the loop stops one digit early
ClearLoopCond_OneShort(i) == i < FTB8MD_NUM_DIGITS - 1
\* for (...; i < FTB8MD_NUM_DIGITS; ...)
ClearLoopCond(i) == i < FTB8MD_NUM_DIGITS

\* variant: only ESP_FAIL counts as a failure
ReturnsEarly_OnFailOnly(r) == r = ESP_FAIL
\* variant: a failed sub-step does not end the call
ReturnsEarly_Never(r) == FALSE
\* if (ret != ESP_OK) return ret;
ReturnsEarly(r) == r # ESP_OK

\* entry up to and including the text-clear transmission
ClearDisplay(d) ==
    /\ pc[d] = "idle"
    /\ \E handle \in HandleArgs(d), r \in TransportResults :
        LET c == [NoCall EXCEPT !.op = "clear_display", !.handle = handle]
            res == ftb8md_send_command(<< >>, handle, ClearTextCmd,
                                       ClearTextLen, r)
        IN  /\ call' = [call EXCEPT ![d] = c]
            /\ IF handle = NULL
               THEN /\ bus' = [bus EXCEPT ![d] = << >>]
                    /\ ret' = [ret EXCEPT ![d] = ESP_ERR_INVALID_ARG]
                    /\ pc' = [pc EXCEPT ![d] = "done"]
                    /\ UNCHANGED idx
               ELSE /\ bus' = [bus EXCEPT ![d] = res.log]
                    /\ IF ReturnsEarly(res.ret)
                       THEN /\ ret' = [ret EXCEPT ![d] = res.ret]
                            /\ pc' = [pc EXCEPT ![d] = "done"]
                            /\ UNCHANGED idx
                       ELSE /\ ret' = [ret EXCEPT ![d] = "none"]
                            /\ idx' = [idx EXCEPT ![d] = 0]
                            /\ pc' = [pc EXCEPT
                                        ![d] = IF ClearLoopCond(0)
                                               THEN "clear_dots"
                                               ELSE "clear_return"]
    /\ UNCHANGED <<hnd, cmd, lhandle>>

\* one pass of the loop: ftb8md_set_dot(handle, i, false)
ClearDot(d) ==
    /\ pc[d] = "clear_dots"
    /\ \E r \in TransportResults :
        LET res == ftb8md_set_dot(bus[d], call[d].handle, idx[d], FALSE, r)
        IN  /\ bus' = [bus EXCEPT ![d] = res.log]
            /\ IF ReturnsEarly(res.ret)
               THEN /\ ret' = [ret EXCEPT ![d] = res.ret]
                    /\ pc' = [pc EXCEPT ![d] = "done"]
                    /\ idx' = [idx EXCEPT ![d] = 0]
               ELSE /\ idx' = [idx EXCEPT ![d] = idx[d] + 1]
                    /\ pc' = [pc EXCEPT
                                ![d] = IF ClearLoopCond(idx[d] + 1)
                                       THEN "clear_dots"
                                       ELSE "clear_return"]
                    /\ UNCHANGED ret
    /\ UNCHANGED <<hnd, call, cmd, lhandle>>

\* return ESP_OK;
ClearReturn(d) ==
    /\ pc[d] = "clear_return"
    /\ ret' = [ret EXCEPT ![d] = ESP_OK]
    /\ pc' = [pc EXCEPT ![d] = "done"]
    /\ idx' = [idx EXCEPT ![d] = 0]
    /\ UNCHANGED <<hnd, call, bus, cmd, lhandle>>

(* ------------------------------------------------------ device_register *)

\* variant: only 0 is taken for "not connected"
HasResetPin_NonZero(reset_pin) == reset_pin # 0
\* variant: GPIO 0 is taken for "not connected"
HasResetPin_Positive(reset_pin) == reset_pin > 0
\* if (reset_pin >= 0)
HasResetPin(reset_pin) == reset_pin >= 0

\* register returns to its caller: the caller stores the handle
RegisterReturns(d, h) ==
    /\ hnd' = [hnd EXCEPT ![d] = h]
    /\ pc' = [pc EXCEPT ![d] = "done"]
    /\ lhandle' = [lhandle EXCEPT ![d] = NULL]
    /\ cmd' = [cmd EXCEPT ![d] = ZeroCmd]

\* entry: the test of reset_pin
DeviceRegister(d) ==
    /\ pc[d] = "idle"
    /\ \E reset_pin \in ResetPins :
        /\ call' = [call EXCEPT ![d] = [NoCall EXCEPT !.op = "device_register",
                                                      !.reset_pin = reset_pin]]
        /\ pc' = [pc EXCEPT ![d] = IF HasResetPin(reset_pin)
                                   THEN "reg_gpio_config" ELSE "reg_bind"]
    /\ UNCHANGED <<hnd, bus, ret, cmd, lhandle, idx>>

\* variant: a failed gpio_config is not noticed
RegGpioConfig_Lenient(d) ==
    /\ pc[d] = "reg_gpio_config"
    /\ \E r \in TransportResults :
        bus' = [bus EXCEPT ![d] = Append(bus[d],
                  Event("gpio_config", <<call[d].reset_pin>>, r))]
    /\ pc' = [pc EXCEPT ![d] = "reg_reset_low"]
    /\ UNCHANGED <<hnd, lhandle, cmd, call, ret, idx>>

\* gpio_config(&io_conf)
RegGpioConfig(d) ==
    /\ pc[d] = "reg_gpio_config"
    /\ \E r \in TransportResults :
        /\ bus' = [bus EXCEPT ![d] = Append(bus[d],
                        Event("gpio_config", <<call[d].reset_pin>>, r))]
        /\ IF r # ESP_OK
           THEN RegisterReturns(d, NULL)
           ELSE /\ pc' = [pc EXCEPT ![d] = "reg_reset_low"]
                /\ UNCHANGED <<hnd, lhandle, cmd>>
    /\ UNCHANGED <<call, ret, idx>>

\* gpio_set_level((gpio_num_t)reset_pin, 0)
RegResetLow(d) ==
    /\ pc[d] = "reg_reset_low"
    /\ bus' = [bus EXCEPT ![d] = Append(bus[d],
                 Event("gpio_set_level", <<call[d].reset_pin, 0>>, ESP_OK))]
    /\ pc' = [pc EXCEPT ![d] = "reg_delay_low"]
    /\ UNCHANGED <<hnd, call, ret, cmd, lhandle, idx>>

\* vTaskDelay(pdMS_TO_TICKS(10)) with the line low
RegDelayLow(d) ==
    /\ pc[d] = "reg_delay_low"
    /\ bus' = [bus EXCEPT ![d] = Append(bus[d],
                 Event("delay", <<ResetDelayMs>>, ESP_OK))]
    /\ pc' = [pc EXCEPT ![d] = "reg_reset_high"]
    /\ UNCHANGED <<hnd, call, ret, cmd, lhandle, idx>>

\* gpio_set_level((gpio_num_t)reset_pin, 1)
RegResetHigh(d) ==
    /\ pc[d] = "reg_reset_high"
    /\ bus' = [bus EXCEPT ![d] = Append(bus[d],
                 Event("gpio_set_level", <<call[d].reset_pin, 1>>, ESP_OK))]
    /\ pc' = [pc EXCEPT ![d] = "reg_delay_high"]
    /\ UNCHANGED <<hnd, call, ret, cmd, lhandle, idx>>

\* vTaskDelay(pdMS_TO_TICKS(10)) with the line high
RegDelayHigh(d) ==
    /\ pc[d] = "reg_delay_high"
    /\ bus' = [bus EXCEPT ![d] = Append(bus[d],
                 Event("delay", <<ResetDelayMs>>, ESP_OK))]
    /\ pc' = [pc EXCEPT ![d] = "reg_bind"]
    /\ UNCHANGED <<hnd, call, ret, cmd, lhandle, idx>>

\* spi_bus_add_device(host_id, &dev_cfg, &handle)
RegBind(d) ==
    /\ pc[d] = "reg_bind"
    /\ \E r \in TransportResults :
        /\ bus' = [bus EXCEPT ![d] = Append(bus[d], Event("bind", <<d>>, r))]
        /\ IF r # ESP_OK
           THEN RegisterReturns(d, NULL)
           ELSE /\ lhandle' = [lhandle EXCEPT ![d] = d]
                /\ pc' = [pc EXCEPT ![d] = "reg_digit_set"]
                /\ UNCHANGED <<hnd, cmd>>
    /\ UNCHANGED <<call, ret, idx>>

\* cmd = {0}; cmd.ctrl.prefix = CMD_DIGIT_SET; cmd.ctrl.arg = 7
DigitSetCmd ==
    SetCtrlArg(SetCtrlPrefix(ZeroCmd, CMD_DIGIT_SET), FTB8MD_NUM_DIGITS - 1)

\* variant: the command is a static buffer, one for all devices
RegDigitSet_StaticCmd(d) ==
    /\ pc[d] = "reg_digit_set"
    /\ \E r \in TransportResults :
        bus' = [bus EXCEPT ![d] =
                  ftb8md_send_command(bus[d], lhandle[d], DigitSetCmd, 2, r).log]
    /\ cmd' = [e \in Devices |-> DigitSetCmd]
    /\ pc' = [pc EXCEPT ![d] = "reg_dimming"]
    /\ UNCHANGED <<hnd, call, ret, lhandle, idx>>

\* variant: a failed digit-count transmission aborts registration
RegDigitSet_Fatal(d) ==
    /\ pc[d] = "reg_digit_set"
    /\ \E r \in TransportResults :
        LET res == ftb8md_send_command(bus[d], lhandle[d], DigitSetCmd, 2, r)
        IN  /\ bus' = [bus EXCEPT ![d] = res.log]
            /\ IF res.ret # ESP_OK
               THEN RegisterReturns(d, NULL)
               ELSE /\ cmd' = [cmd EXCEPT ![d] = DigitSetCmd]
                    /\ pc' = [pc EXCEPT ![d] = "reg_dimming"]
                    /\ UNCHANGED <<hnd, lhandle>>
    /\ UNCHANGED <<call, ret, idx>>

\* the digit-count packet; its result is logged and otherwise ignored
RegDigitSet(d) ==
    /\ pc[d] = "reg_digit_set"
    /\ \E r \in TransportResults :
        bus' = [bus EXCEPT ![d] =
                  ftb8md_send_command(bus[d], lhandle[d], DigitSetCmd, 2, r).log]
    /\ cmd' = [cmd EXCEPT ![d] = DigitSetCmd]
    /\ pc' = [pc EXCEPT ![d] = "reg_dimming"]
    /\ UNCHANGED <<hnd, call, ret, lhandle, idx>>

\* ftb8md_set_dimming(handle, FTB8MD_MAX_DIMMING); result dropped
RegDimming(d) ==
    /\ pc[d] = "reg_dimming"
    /\ \E r \in TransportResults :
        bus' = [bus EXCEPT ![d] =
                  ftb8md_set_dimming(bus[d], lhandle[d],
                                     FTB8MD_MAX_DIMMING, r).log]
    /\ pc' = [pc EXCEPT ![d] = "reg_display_on"]
    /\ UNCHANGED <<hnd, call, ret, cmd, lhandle, idx>>

\* cmd.ctrl.prefix = CMD_DISPLAY_ON on the command the digit-count step left
DisplayOnCmd(c) == SetCtrlPrefix(c, CMD_DISPLAY_ON)

\* the display-on packet, then return handle
RegDisplayOn(d) ==
    /\ pc[d] = "reg_display_on"
    /\ \E r \in TransportResults :
        bus' = [bus EXCEPT ![d] =
                  ftb8md_send_command(bus[d], lhandle[d],
                                      DisplayOnCmd(cmd[d]), 2, r).log]
    /\ RegisterReturns(d, lhandle[d])
    /\ UNCHANGED <<call, ret, idx>>

(* -------------------------------------------------------- specification *)

\* the driver used on one device, by one thread
Op(d) ==
    \/ DeviceRegister(d) \/ RegGpioConfig(d) \/ RegResetLow(d)
    \/ RegDelayLow(d) \/ RegResetHigh(d) \/ RegDelayHigh(d) \/ RegBind(d)
    \/ RegDigitSet(d) \/ RegDimming(d) \/ RegDisplayOn(d)
    \/ ShowString(d) \/ SetDimming(d) \/ EnterStandby(d)
    \/ SetDisplayPower(d) \/ SetDot(d) \/ SetSegment(d)
    \/ ClearDisplay(d) \/ ClearDot(d) \/ ClearReturn(d)
    \/ WriteCustomChar(d) \/ SetAddressedChar(d)
    \/ CallerContinues(d)

Next == Op(1)

Spec == Init /\ [][Next]_vars

(* ----------------------------------------------- two devices, two threads *)

\* arguments of the calls made while two devices are driven side by side
ConcDigits == {0, 6, FTB8MD_NUM_DIGITS}
ConcTexts == {NULLPTR, Ptr(<< >>), Ptr(HELLO)}
ConcLevels == {0, 255}
ConcIndices == {0, 7, 8}
ConcGrids == {NULLPTR, Ptr(<<255, 128, 127, 0, 255>>)}

ConcShowString(d) ==
    /\ pc[d] = "idle"
    /\ \E handle \in HandleArgs(d), digit \in ConcDigits, str \in ConcTexts,
          r \in TransportResults :
        Returns(d, [NoCall EXCEPT !.op = "show_string", !.handle = handle,
                                  !.digit = digit, !.str = str],
                ftb8md_show_string(<< >>, handle, digit, str, r))

ConcSetDimming(d) ==
    /\ pc[d] = "idle"
    /\ \E handle \in HandleArgs(d), level \in ConcLevels,
          r \in TransportResults :
        Returns(d, [NoCall EXCEPT !.op = "set_dimming", !.handle = handle,
                                  !.level = level],
                ftb8md_set_dimming(<< >>, handle, level, r))

ConcSetDot(d) ==
    /\ pc[d] = "idle"
    /\ \E handle \in HandleArgs(d), digit \in ConcDigits, dot_on \in BOOLEAN,
          r \in TransportResults :
        Returns(d, [NoCall EXCEPT !.op = "set_dot", !.handle = handle,
                                  !.digit = digit, !.flag = dot_on],
                ftb8md_set_dot(<< >>, handle, digit, dot_on, r))

ConcSetSegment(d) ==
    /\ pc[d] = "idle"
    /\ \E handle \in HandleArgs(d), digit \in ConcDigits,
          segments \in ConcLevels, r \in TransportResults :
        Returns(d, [NoCall EXCEPT !.op = "set_segment", !.handle = handle,
                                  !.digit = digit, !.level = segments],
                ftb8md_set_segment(<< >>, handle, digit, segments, r))

ConcWriteCustomChar(d) ==
    /\ pc[d] = "idle"
    /\ \E handle \in HandleArgs(d), char_index \in ConcIndices,
          grid \in ConcGrids, r \in TransportResults :
        Returns(d, [NoCall EXCEPT !.op = "write_custom_char",
                                  !.handle = handle,
                                  !.char_index = char_index, !.grid = grid],
                ftb8md_write_custom_char(<< >>, handle, char_index, grid, r))

ConcSetAddressedChar(d) ==
    /\ pc[d] = "idle"
    /\ \E handle \in HandleArgs(d), digit \in ConcDigits,
          char_index \in ConcIndices, r \in TransportResults :
        Returns(d, [NoCall EXCEPT !.op = "set_addressed_char",
                                  !.handle = handle, !.digit = digit,
                                  !.char_index = char_index],
                ftb8md_set_addressed_char(<< >>, handle, digit, char_index, r))

\* the driver used on device d by the thread that owns it
ConcOp(d) ==
    \/ DeviceRegister(d) \/ RegGpioConfig(d) \/ RegResetLow(d)
    \/ RegDelayLow(d) \/ RegResetHigh(d) \/ RegDelayHigh(d) \/ RegBind(d)
    \/ RegDigitSet(d) \/ RegDimming(d) \/ RegDisplayOn(d)
    \/ ConcShowString(d) \/ ConcSetDimming(d) \/ EnterStandby(d)
    \/ SetDisplayPower(d) \/ ConcSetDot(d) \/ ConcSetSegment(d)
    \/ ClearDisplay(d) \/ ClearDot(d) \/ ClearReturn(d)
    \/ ConcWriteCustomChar(d) \/ ConcSetAddressedChar(d)
    \/ CallerContinues(d)

\* two threads, one per device, interleaved at every external call
NextConc == \E d \in Devices : ConcOp(d)

SpecConc == Init /\ [][NextConc]_vars

(* ----------------------------------------------------------- properties *)

\* the transmissions among the external calls of a log
IsTx(e) == e.type = "tx"
Txs(log) == SelectSeq(log, IsTx)
Min(a, b) == IF a < b THEN a ELSE b

\* device d's caller holds the result of a finished call of op
Finished(d, op) == pc[d] = "done" /\ call[d].op = op
\* ... made on the ready handle of d
FinishedReady(d, op) == Finished(d, op) /\ call[d].handle # NULL

\* the call made exactly one external call, a transmission, and returned
\* what the transport reported for it
OneTx(d) ==
    /\ Len(bus[d]) = 1
    /\ bus[d][1].type = "tx"
    /\ ret[d] = bus[d][1].ret

\* C1: show_text on a ready handle with digit in [0,7] and a text of length L
\* (L bytes, none of them the terminator)
\* transmits exactly one DCRAM packet of length 1 + min(L, 8 - digit): first
\* byte 0b001 in bits 7-5 and the digit in bits 4-0, payload the first
\* min(L, 8 - digit) bytes of the text unchanged; overflow is truncated with no
\* error; digit 6 with "HELLO" sends the 3 bytes 0x26 'H' 'E'.
C1_ShowTextPacket ==
    \A d \in Devices :
        (/\ FinishedReady(d, "show_string")
         /\ ~call[d].str.null
         /\ \A k \in 1 .. Len(call[d].str.bytes) : call[d].str.bytes[k] # 0
         /\ call[d].digit \in 0 .. 7)
        => LET text == call[d].str.bytes
               n == Min(Len(text), 8 - call[d].digit)
           IN  /\ OneTx(d)
               /\ ret[d] # ESP_ERR_INVALID_ARG
               /\ Len(bus[d][1].data) = 1 + n
               /\ bus[d][1].data[1] \div 32 = 1
               /\ bus[d][1].data[1] % 32 = call[d].digit
               /\ \A k \in 1 .. n : bus[d][1].data[k + 1] = text[k]
               /\ (call[d].digit = 6 /\ text = HELLO)
                   => bus[d][1].data = <<38, 72, 69>>

\* show_text(handle, 6, "HELLO") has sent its truncated packet
C1_Witness ==
    /\ FinishedReady(1, "show_string")
    /\ call[1].digit = 6
    /\ call[1].str = Ptr(HELLO)
    /\ Len(bus[1]) = 1
    /\ Len(bus[1][1].data) = 3
    /\ ret[1] = ESP_OK

\* C2: for a digit outside [0,7] every digit-taking operation (show_text,
\* set_dot, set_segment_raw, set_addressed_glyph) returns InvalidArgument and
\* transmits nothing, whatever its other arguments.
DigitOps == {"show_string", "set_dot", "set_segment", "set_addressed_char"}
C2_BadDigitRejected ==
    \A d \in Devices :
        (/\ pc[d] = "done"
         /\ call[d].op \in DigitOps
         /\ call[d].digit \notin 0 .. 7)
        => /\ ret[d] = ESP_ERR_INVALID_ARG
           /\ bus[d] = << >>

\* set_segment(handle, 8, 0xFF) on a ready handle was rejected
C2_Witness ==
    /\ FinishedReady(1, "set_segment")
    /\ call[1].digit = 8
    /\ call[1].level = 255
    /\ ret[1] = ESP_ERR_INVALID_ARG
    /\ bus[1] = << >>

\* what clear transmits when nothing fails: the text-clear packet, then the
\* dot-off packet of digit 0, 1, ..., 7
ClearExpected ==
    <<  <<32, 32, 32, 32, 32, 32, 32, 32, 32>>,
        <<96, 0>>, <<97, 0>>, <<98, 0>>, <<99, 0>>,
        <<100, 0>>, <<101, 0>>, <<102, 0>>, <<103, 0>>  >>

AllSucceeded(log) == \A k \in 1 .. Len(log) : log[k].ret = ESP_OK

\* C3: when every transmission succeeds, clear() on a ready handle issues
\* exactly 9 transmissions in this order: one 9-byte DCRAM packet at digit 0
\* carrying 8 spaces, then the dot-off ADRAM packet of digit 0, 1, ..., 7; it
\* then returns success.  (While the call runs, what it has sent is a prefix
\* of that sequence.)
C3_ClearSequence ==
    \A d \in Devices :
        (call[d].op = "clear_display" /\ call[d].handle # NULL)
        => /\ Len(bus[d]) <= 9
           /\ \A k \in 1 .. Len(bus[d]) :
                /\ bus[d][k].type = "tx"
                /\ bus[d][k].data = ClearExpected[k]
           /\ (pc[d] = "done" /\ AllSucceeded(bus[d]))
                => (Len(bus[d]) = 9 /\ ret[d] = ESP_OK)
           /\ (pc[d] = "done" /\ ret[d] = ESP_OK) => Len(bus[d]) = 9

\* clear() has returned success after its ninth transmission
C3_Witness ==
    /\ FinishedReady(1, "clear_display")
    /\ ret[1] = ESP_OK
    /\ Len(bus[1]) = 9
    /\ bus[1][9].data = <<103, 0>>

\* the third dot-off (digit 2) of a clear() was transmitted and failed
ThirdDotOffFailed(d) ==
    /\ Finished(d, "clear_display")
    /\ \E k \in 1 .. Len(bus[d]) :
        /\ bus[d][k].type = "tx"
        /\ bus[d][k].data = <<98, 0>>
        /\ bus[d][k].ret # ESP_OK

\* C4 as stated: if the 3rd dot-off fails, exactly 3 transmissions occurred
\* and clear returns that failure.
C4_Original ==
    \A d \in Devices :
        ThirdDotOffFailed(d)
        => /\ Len(Txs(bus[d])) = 3
           /\ ret[d] \in TransportErrors

\* C4 amended: if the 3rd dot-off fails, exactly 4 transmissions were
\* attempted -- the text-clear and the dot-offs of digits 0 and 1, which
\* succeeded (3 successful transmissions), and the failing dot-off of digit 2
\* -- and clear returns that failure.
C4_ThirdDotOffFails ==
    \A d \in Devices :
        ThirdDotOffFailed(d)
        => /\ Len(bus[d]) = 4
           /\ Len(Txs(bus[d])) = 4
           /\ \A k \in 1 .. 3 : bus[d][k].ret = ESP_OK
           /\ bus[d][4].data = <<98, 0>>
           /\ bus[d][4].ret \in TransportErrors
           /\ ret[d] = bus[d][4].ret

\* clear() has returned the timeout its third dot-off met
C4_Witness ==
    /\ ThirdDotOffFailed(1)
    /\ ret[1] = ESP_ERR_TIMEOUT

\* the k-th external call of a register with reset line `pin` is the one
\* the reset-then-configure sequence has at that place
RegisterStepIs(e, k, pin) ==
    CASE k = 1 -> e.type = "gpio_config" /\ e.data = <<pin>>
      [] k = 2 -> e.type = "gpio_set_level" /\ e.data = <<pin, 0>>
      [] k = 3 -> e.type = "delay" /\ e.data[1] >= 10
      [] k = 4 -> e.type = "gpio_set_level" /\ e.data = <<pin, 1>>
      [] k = 5 -> e.type = "delay" /\ e.data[1] >= 10
      [] k = 6 -> e.type = "bind"
      [] k = 7 -> e.type = "tx" /\ e.data = <<224, 7>>
      [] k = 8 -> e.type = "tx" /\ e.data = <<228, 240>>
      [] k = 9 -> e.type = "tx" /\ Len(e.data) = 2 /\ e.data[1] = 232
      [] OTHER -> FALSE

\* C5: register with a reset line present performs, in this order: reset line
\* low, delay, reset line high, delay, bus-device binding, then exactly 3
\* control transmissions: digit count (8 digits, argument 7), dimming (240),
\* display-on; nothing is transmitted before the reset pulse has completed,
\* and register returns a ready handle only after the third transmission.
C5_RegisterSequence ==
    \A d \in Devices :
        (call[d].op = "device_register" /\ call[d].reset_pin >= 0)
        => /\ \A k \in 1 .. Len(bus[d]) :
                RegisterStepIs(bus[d][k], k, call[d].reset_pin)
           /\ (pc[d] = "done" /\ hnd[d] # NULL)
                => (Len(bus[d]) = 9 /\ Len(Txs(bus[d])) = 3)
           /\ pc[d] # "done" => Len(bus[d]) < 9
           /\ (pc[d] = "done" /\ Len(bus[d]) >= 6 /\ bus[d][6].ret = ESP_OK)
                => (hnd[d] = d /\ Len(bus[d]) = 9)

\* register(reset pin 4) has returned a handle after its third transmission
C5_Witness ==
    /\ Finished(1, "device_register")
    /\ call[1].reset_pin = 4
    /\ hnd[1] = 1
    /\ Len(bus[1]) = 9
    /\ AllSucceeded(bus[1])

\* C6: set_dimming with a level above 240 transmits the same 2-byte packet as
\* set_dimming(240); for a level <= 240 the argument byte is the level; the
\* argument byte is always in [0,240] and no level is rejected.
C6_DimmingSaturates ==
    \A d \in Devices :
        FinishedReady(d, "set_dimming")
        => /\ OneTx(d)
           /\ ret[d] # ESP_ERR_INVALID_ARG
           /\ Len(bus[d][1].data) = 2
           /\ bus[d][1].data[1] = 228
           /\ bus[d][1].data[2] \in 0 .. 240
           /\ call[d].level > 240 => bus[d][1].data = <<228, 240>>
           /\ call[d].level <= 240 => bus[d][1].data[2] = call[d].level

\* set_dimming(255) has sent the packet of set_dimming(240)
C6_Witness ==
    /\ FinishedReady(1, "set_dimming")
    /\ call[1].level = 255
    /\ Len(bus[1]) = 1
    /\ bus[1][1].data = <<228, 240>>

\* C7: enter_standby(true) and enter_standby(false) each transmit one 2-byte
\* control packet; the two differ only in the opcode byte (standby 0xED,
\* normal 0xEC) and the argument byte is zero in both.
C7_StandbyPackets ==
    \A d \in Devices :
        FinishedReady(d, "enter_standby")
        => /\ OneTx(d)
           /\ bus[d][1].data = <<(IF call[d].flag THEN 237 ELSE 236), 0>>

\* enter_standby(true) has sent the standby packet
C7_Witness ==
    /\ FinishedReady(1, "enter_standby")
    /\ call[1].flag
    /\ Len(bus[1]) = 1
    /\ bus[1][1].data = <<237, 0>>

\* C8: for a glyph index i in [0,7] and a 5-byte pattern p (bit 7 free),
\* define_glyph transmits one 6-byte CGRAM packet (0b010 in bits 7-5 of the
\* first byte) from which i is read back in bits 0-2 of the first byte and p
\* unchanged in the five following bytes.
C8_GlyphRoundTrip ==
    \A d \in Devices :
        (/\ FinishedReady(d, "write_custom_char")
         /\ ~call[d].grid.null
         /\ call[d].char_index \in 0 .. 7)
        => /\ OneTx(d)
           /\ Len(bus[d][1].data) = 6
           /\ bus[d][1].data[1] \div 32 = 2
           /\ bus[d][1].data[1] % 8 = call[d].char_index
           /\ SubSeq(bus[d][1].data, 2, 6) = call[d].grid.bytes

\* define_glyph(5, p) with bit 7 set in a column of p has sent its packet
C8_Witness ==
    /\ FinishedReady(1, "write_custom_char")
    /\ call[1].char_index = 5
    /\ call[1].grid = Ptr(<<255, 128, 127, 0, 255>>)
    /\ Len(bus[1]) = 1
    /\ bus[1][1].data = <<69, 255, 128, 127, 0, 255>>

\* the binding attempts among the external calls of a log
IsBind(e) == e.type = "bind"
Binds(log) == SelectSeq(log, IsBind)

\* C9: register returns no usable handle when binding the transport address
\* fails, and then transmits nothing; when binding succeeds, a failure of any
\* of the three configuration transmissions does not abort registration: the
\* remaining ones are still attempted and a usable handle is returned.
C9_RegisterLeniency ==
    \A d \in Devices :
        (Finished(d, "device_register") /\ Len(Binds(bus[d])) > 0)
        => LET bind == Binds(bus[d])[1]
               tx == Txs(bus[d])
           IN  /\ Len(Binds(bus[d])) = 1
               /\ bind.ret # ESP_OK => (hnd[d] = NULL /\ tx = << >>)
               /\ bind.ret = ESP_OK
                    => /\ hnd[d] = d
                       /\ Len(tx) = 3
                       /\ tx[1].data[1] = 224
                       /\ tx[2].data[1] = 228
                       /\ tx[3].data[1] = 232

\* register has returned a handle although all three transmissions failed
C9_Witness ==
    /\ Finished(1, "device_register")
    /\ hnd[1] = 1
    /\ Len(Txs(bus[1])) = 3
    /\ \A k \in 1 .. 3 : Txs(bus[1])[k].ret # ESP_OK

\* the finished call of d had an argument that fails validation: a null
\* handle, a null text or pattern pointer, a glyph index outside [0,7]
FailsValidation(d) ==
    \/ call[d].handle = NULL
    \/ call[d].op = "show_string" /\ call[d].str.null
    \/ call[d].op = "write_custom_char" /\ call[d].grid.null
    \/ /\ call[d].op \in {"write_custom_char", "set_addressed_char"}
       /\ call[d].char_index \notin 0 .. 7

\* C10: a call of a public operation other than register that fails
\* validation (null handle, null text or pattern pointer, glyph index outside
\* [0,7]) returns InvalidArgument before any bus activity: the call transmits
\* nothing, also when the failing check follows checks that passed.
C10_ValidationBeforeBus ==
    \A d \in Devices :
        (/\ pc[d] = "done"
         /\ call[d].op \notin {"none", "device_register"}
         /\ FailsValidation(d))
        => /\ ret[d] = ESP_ERR_INVALID_ARG
           /\ bus[d] = << >>

\* set_addressed_glyph with ready handle and digit 3 was rejected for index 8
C10_Witness ==
    /\ FinishedReady(1, "set_addressed_char")
    /\ call[1].digit = 3
    /\ call[1].char_index = 8
    /\ ret[1] = ESP_ERR_INVALID_ARG
    /\ bus[1] = << >>

\* the finished call of d had arguments that pass every check of its
\* function, on the ready handle of d
ValidCall(d) ==
    /\ call[d].handle # NULL
    /\ ~FailsValidation(d)
    /\ call[d].op \in DigitOps => call[d].digit \in 0 .. 7

SinglePacketOps ==
    {"show_string", "set_dimming", "enter_standby", "set_display_power",
     "set_dot", "set_segment", "write_custom_char", "set_addressed_char"}

\* C11: every single-packet operation called with valid arguments on a ready
\* handle invokes the transport's transmit exactly once and returns exactly
\* the transport's result: success when it succeeded, otherwise the
\* transport's own error unchanged; no retry, no second transmission.
C11_TransportResultVerbatim ==
    \A d \in Devices :
        (/\ pc[d] = "done"
         /\ call[d].op \in SinglePacketOps
         /\ ValidCall(d))
        => /\ Len(bus[d]) = 1
           /\ bus[d][1].type = "tx"
           /\ ret[d] = bus[d][1].ret
           /\ ret[d] \in TransportResults

\* set_power(on) has returned the timeout its one transmission met
C11_Witness ==
    /\ FinishedReady(1, "set_display_power")
    /\ call[1].flag
    /\ Len(bus[1]) = 1
    /\ bus[1][1].ret = ESP_ERR_TIMEOUT
    /\ ret[1] = ESP_ERR_TIMEOUT

\* C12: if a sub-step of clear() fails (the text-clear or any dot-off), clear
\* returns that failure at once and attempts no further sub-step: the failed
\* transmission is the last one of the call (a failed text-clear is followed
\* by no dot-off).
C12_ClearStopsAtFailure ==
    \A d \in Devices :
        call[d].op = "clear_display"
        => \A k \in 1 .. Len(bus[d]) :
                bus[d][k].ret # ESP_OK
                => /\ k = Len(bus[d])
                   /\ pc[d] = "done"
                   /\ ret[d] = bus[d][k].ret

\* clear() has returned the timeout of its text-clear; no dot-off was sent
C12_Witness ==
    /\ FinishedReady(1, "clear_display")
    /\ Len(bus[1]) = 1
    /\ bus[1][1].data = ClearExpected[1]
    /\ bus[1][1].ret = ESP_ERR_TIMEOUT
    /\ ret[1] = ESP_ERR_TIMEOUT

\* C13: register with a reset line value meaning "not connected" (negative
\* pin) skips the reset step entirely: no GPIO configuration, no level change
\* and no reset delay; it still binds the device and, the binding made,
\* issues the three configuration transmissions.
C13_NoResetLine ==
    \A d \in Devices :
        (call[d].op = "device_register" /\ call[d].reset_pin < 0)
        => /\ \A k \in 1 .. Len(bus[d]) :
                bus[d][k].type \notin {"gpio_config", "gpio_set_level", "delay"}
           /\ Len(bus[d]) >= 1 => bus[d][1].type = "bind"
           /\ pc[d] = "done" => Len(bus[d]) >= 1
           /\ (pc[d] = "done" /\ bus[d][1].ret = ESP_OK)
                => /\ Len(bus[d]) = 4
                   /\ bus[d][2].data = <<224, 7>>
                   /\ bus[d][3].data = <<228, 240>>
                   /\ bus[d][4].data[1] = 232
                   /\ hnd[d] = d

\* register(reset_pin = -1) has bound the device and sent its three packets
C13_Witness ==
    /\ Finished(1, "device_register")
    /\ call[1].reset_pin = -1
    /\ hnd[1] = 1
    /\ Len(bus[1]) = 4
    /\ bus[1][1].type = "bind"

\* the length of the C string in a buffer: up to its first terminator
TextLength(text) ==
    IF \E k \in 1 .. Len(text) : text[k] = 0
    THEN (CHOOSE k \in 1 .. Len(text) :
            text[k] = 0 /\ \A j \in 1 .. k - 1 : text[j] # 0) - 1
    ELSE Len(text)

\* packet p, sent by the call c, has the used length of its layout
UsedLength(c, p) ==
    LET prefix == p[1] \div 32
    IN  CASE c.op = "show_string"
               -> /\ prefix = 1
                  /\ Len(p) = 1 + Min(TextLength(c.str.bytes), 8 - c.digit)
          [] c.op \in {"set_segment", "set_addressed_char"}
               -> prefix = 1 /\ Len(p) = 2
          [] c.op = "clear_display"
               -> \/ prefix = 1 /\ Len(p) = 1 + 8
                  \/ prefix = 3 /\ Len(p) = 2
          [] c.op = "set_dot" -> prefix = 3 /\ Len(p) = 2
          [] c.op = "write_custom_char" -> prefix = 2 /\ Len(p) = 6
          [] c.op \in {"set_dimming", "enter_standby", "set_display_power",
                       "device_register"}
               -> p[1] \in 224 .. 239 /\ Len(p) = 2
          [] OTHER -> FALSE

\* C14: every packet handed to the transport by any operation (those inside
\* register and clear included) is 1 to 9 bytes long; its length is the used
\* length of its layout (1 + characters written for a DCRAM text write, 6 for
\* CGRAM, 2 for ADRAM and control), the full 9 bytes only when 8 characters
\* are written.
C14_PacketLength ==
    \A d \in Devices :
        \A k \in 1 .. Len(bus[d]) :
            bus[d][k].type = "tx"
            => LET p == bus[d][k].data
               IN  /\ Len(p) \in 1 .. 9
                   /\ UsedLength(call[d], p)
                   /\ Len(p) = 9
                        => \/ call[d].op = "clear_display"
                           \/ /\ call[d].op = "show_string"
                              /\ call[d].digit = 0
                              /\ TextLength(call[d].str.bytes) >= 8

\* show_text at digit 0 with a 9-character text has sent the full 9 bytes,
\* and one at digit 7 with the empty text a single byte
C14_Witness ==
    /\ FinishedReady(1, "show_string")
    /\ call[1].digit = 0
    /\ Len(call[1].str.bytes) = 9
    /\ Len(bus[1]) = 1
    /\ Len(bus[1][1].data) = 9

\* C15: for a digit in [0,7], set_dot(handle, digit, on) transmits one 2-byte
\* ADRAM packet: first byte 0b011 in bits 7-5 and the digit in bits 4-0;
\* second byte low nibble 0x1 when on, 0x0 otherwise, high nibble zero.
C15_DotPacket ==
    \A d \in Devices :
        (FinishedReady(d, "set_dot") /\ call[d].digit \in 0 .. 7)
        => /\ OneTx(d)
           /\ Len(bus[d][1].data) = 2
           /\ bus[d][1].data[1] \div 32 = 3
           /\ bus[d][1].data[1] % 32 = call[d].digit
           /\ bus[d][1].data[2] % 16 = (IF call[d].flag THEN 1 ELSE 0)
           /\ bus[d][1].data[2] \div 16 = 0

\* set_dot(5, on) has sent 0x65 0x01
C15_Witness ==
    /\ FinishedReady(1, "set_dot")
    /\ call[1].digit = 5
    /\ call[1].flag
    /\ Len(bus[1]) = 1
    /\ bus[1][1].data = <<101, 1>>

\* set_addressed_glyph(digit, index) sends the DCRAM packet with the index
\* as its one payload byte
AddressedGlyphPacket(d) ==
    (/\ FinishedReady(d, "set_addressed_char")
     /\ call[d].digit \in 0 .. 7
     /\ call[d].char_index \in 0 .. 7)
    => /\ OneTx(d)
       /\ bus[d][1].data = <<32 + call[d].digit, call[d].char_index>>

\* set_segment_raw(digit, index) sends that same packet
SegmentRawOfIndexPacket(d) ==
    (/\ FinishedReady(d, "set_segment")
     /\ call[d].digit \in 0 .. 7
     /\ call[d].level \in 0 .. 7)
    => /\ OneTx(d)
       /\ bus[d][1].data = <<32 + call[d].digit, call[d].level>>

\* show_text(digit, text) with text the one character of code c
OneCharText(d, c) ==
    /\ FinishedReady(d, "show_string")
    /\ call[d].digit \in 0 .. 7
    /\ call[d].str = Ptr(<<c>>)

\* C16 as stated: set_addressed_glyph(handle, digit, index), for digit and
\* index in [0,7], transmits the 2-byte DCRAM packet (0b001, digit, payload
\* byte = index); set_segment_raw(handle, digit, index) and a one-character
\* show_text at that digit with character code index transmit the same packet.
C16_Original ==
    \A d \in Devices :
        /\ AddressedGlyphPacket(d)
        /\ SegmentRawOfIndexPacket(d)
        /\ \A c \in 0 .. 7 :
            OneCharText(d, c)
            => (OneTx(d) /\ bus[d][1].data = <<32 + call[d].digit, c>>)

\* C16 amended: set_addressed_glyph(handle, digit, index) transmits the 2-byte
\* DCRAM packet with payload byte = index; set_segment_raw(handle, digit,
\* index) transmits the same packet, and so does a one-character show_text
\* with character code index for index in [1,7]; for index 0 the character is
\* the string terminator, the text is empty and show_text transmits the
\* 1-byte packet without payload.
C16_AddressedGlyphPacket ==
    \A d \in Devices :
        /\ AddressedGlyphPacket(d)
        /\ SegmentRawOfIndexPacket(d)
        /\ \A c \in 1 .. 7 :
            OneCharText(d, c)
            => (OneTx(d) /\ bus[d][1].data = <<32 + call[d].digit, c>>)
        /\ OneCharText(d, 0)
            => (OneTx(d) /\ bus[d][1].data = <<32 + call[d].digit>>)

\* set_addressed_glyph(1, 0), the heart of the custom_char example, has
\* sent 0x21 0x00
C16_Witness ==
    /\ FinishedReady(1, "set_addressed_char")
    /\ call[1].digit = 1
    /\ call[1].char_index = 0
    /\ Len(bus[1]) = 1
    /\ bus[1][1].data = <<33, 0>>

\* the third configuration transmission of a register
RegisterDisplayOn(d) ==
    /\ call[d].op = "device_register"
    /\ Len(Txs(bus[d])) = 3

\* C18: the display-on packet that register transmits as its third
\* configuration step is byte for byte the 2-byte packet that
\* set_power(handle, on = true) transmits, 0xE8 0x00: same opcode byte and
\* same argument byte.
C18_DisplayOnSamePacket ==
    \A d \in Devices :
        /\ (FinishedReady(d, "set_display_power") /\ call[d].flag)
            => bus[d][1].data = <<232, 0>>
        /\ RegisterDisplayOn(d) => Txs(bus[d])[3].data = <<232, 0>>

\* C19: if configuring the reset line as an output fails during register,
\* register returns no handle and performs no reset pulse (no level change,
\* no delay), no bus-device binding and no transmission.
C19_GpioConfigFailure ==
    \A d \in Devices :
        (/\ call[d].op = "device_register"
         /\ Len(bus[d]) >= 1
         /\ bus[d][1].type = "gpio_config"
         /\ bus[d][1].ret # ESP_OK)
        => /\ Len(bus[d]) = 1
           /\ pc[d] = "done"
           /\ hnd[d] = NULL

\* register(reset pin 4) has returned NULL after gpio_config failed
C19_Witness ==
    /\ Finished(1, "device_register")
    /\ call[1].reset_pin = 4
    /\ bus[1] = <<Event("gpio_config", <<4>>, ESP_FAIL)>>
    /\ hnd[1] = NULL

\* everything the driver and its caller hold for device d
DevState(d) ==
    <<pc[d], hnd[d], call[d], bus[d], ret[d], cmd[d], lhandle[d], idx[d]>>

\* a step that changes what belongs to one device leaves the other's alone
OneDeviceStep ==
    \A d \in Devices :
        DevState(d)' # DevState(d)
        => \A e \in Devices \ {d} : DevState(e)' = DevState(e)

\* the packets on the bus of d and the result of its call are what the call's
\* own arguments and its own transport results prescribe
OwnCallOnly(d) ==
    /\ call[d].handle \in {NULL, d}
    /\ hnd[d] \in {NULL, d}
    /\ (pc[d] = "done" /\ call[d].op \in SinglePacketOps)
        => IF ValidCall(d)
           THEN /\ Len(bus[d]) = 1
                /\ ret[d] = bus[d][1].ret
                /\ UsedLength(call[d], bus[d][1].data)
           ELSE bus[d] = << >> /\ ret[d] = ESP_ERR_INVALID_ARG
    /\ (FinishedReady(d, "show_string") /\ call[d].str = Ptr(HELLO)
        /\ call[d].digit = 6)
        => bus[d][1].data = <<38, 72, 69>>
    /\ (call[d].op = "clear_display" /\ call[d].handle # NULL)
        => /\ \A k \in 1 .. Len(bus[d]) : bus[d][k].data = ClearExpected[k]
           /\ \A k \in 1 .. Len(bus[d]) - 1 : bus[d][k].ret = ESP_OK
           /\ pc[d] = "done"
                => ret[d] = bus[d][Len(bus[d])].ret
           /\ (pc[d] = "done" /\ ret[d] = ESP_OK) => Len(bus[d]) = 9
    /\ call[d].op = "device_register"
        => /\ \A k \in 1 .. Len(Txs(bus[d])) :
                Txs(bus[d])[k].data = <<  <<224, 7>>, <<228, 240>>,
                                          <<232, 7>>  >>[k]
           /\ Len(Txs(bus[d])) <= 3
           /\ (pc[d] = "done" /\ hnd[d] = d) => Len(Txs(bus[d])) = 3

\* C17: when calls on two distinct ready device handles are interleaved
\* arbitrarily (two threads, every external call an interleaving step), the
\* packets transmitted on each handle and the result of each call are those
\* the handle's own calls prescribe, as if they had run alone: no step of one
\* device touches what belongs to the other, and nothing is carried over
\* between calls.
C17_HandlesIndependent ==
    /\ [](\A d \in Devices : OwnCallOnly(d))
    /\ [][OneDeviceStep]_vars

\* both handles are ready and both devices are in the middle of a clear()
C17_Witness ==
    /\ hnd[1] = 1 /\ hnd[2] = 2
    /\ pc[1] = "clear_dots" /\ Len(bus[1]) = 4
    /\ pc[2] = "clear_dots" /\ Len(bus[2]) = 7

====
